---- MODULE Spec2Model ----
(***************************************************************************)
(* A model of source-map-loader (src/src/index.ts): one invocation of the  *)
(* webpack loader on one asset.                                            *)
(*                                                                         *)
(* Texts, references and paths are TLA+ strings, read character by         *)
(* character (TLC evaluates Len, \o and SubSeq on strings).  The regular   *)
(* expressions of index.ts are written out as the backtracking matchers    *)
(* they denote.  Node's library functions (path.resolve, path.dirname,     *)
(* fileURLToPath, Buffer base64 decoding, JSON.parse, fs.readFile) are the *)
(* environment; they are modelled by what they do on the strings used.     *)
(***************************************************************************)
EXTENDS Integers, Sequences, FiniteSets, TLC

\* F(e), with e evaluated once and handed over as a value
Bind(e, F(_)) == CHOOSE y \in {F(x) : x \in {e}} : TRUE

(***************************************************************************)
(* Strings                                                                 *)
(***************************************************************************)
Ch(s, i) == IF i >= 1 /\ i <= Len(s) THEN SubSeq(s, i, i) ELSE ""

\* s.substring(i-1) with 1-based i
From(s, i) == SubSeq(s, i, Len(s))

\* does pat occur in s at (1-based) position i
At(s, pat, i) ==
    /\ i >= 1
    /\ i + Len(pat) - 1 <= Len(s)
    /\ SubSeq(s, i, i + Len(pat) - 1) = pat

StartsWith(s, pat) == At(s, pat, 1)

\* the tests a position of a string is searched with
Holds(test, s, arg, j) ==
    CASE test = "at" -> At(s, arg, j)
      [] test = "ws" -> Ch(s, j) \in {" ", "\t", "\n", "\r"}
      [] test = "notws" -> Ch(s, j) \notin {" ", "\t", "\n", "\r"}
      [] test = "in" -> Ch(s, j) \in arg
      [] test = "notin" -> Ch(s, j) \notin arg

\* the least position in lo..hi that passes the test, 0 when there is none
FirstPos(test, s, arg, lo, hi) ==
    IF \E j \in lo..hi : Holds(test, s, arg, j)
    THEN CHOOSE j \in lo..hi :
            /\ Holds(test, s, arg, j)
            /\ \A k \in lo..(j - 1) : ~Holds(test, s, arg, k)
    ELSE 0

\* the greatest position in lo..hi that passes the test, 0 when there is none
LastPos(test, s, arg, lo, hi) ==
    IF \E j \in lo..hi : Holds(test, s, arg, j)
    THEN CHOOSE j \in lo..hi :
            /\ Holds(test, s, arg, j)
            /\ \A k \in (j + 1)..hi : ~Holds(test, s, arg, k)
    ELSE 0

\* the position after the longest run, starting at i, of positions that fail
\* the test
RunUntil(test, s, arg, i) ==
    IF i > Len(s) THEN i
    ELSE Bind(FirstPos(test, s, arg, i, Len(s)),
              LAMBDA k : IF k = 0 THEN Len(s) + 1 ELSE k)

\* least position >= i where pat occurs in s, 0 when there is none
IndexOfFrom(s, pat, i) == FirstPos("at", s, pat, i, Len(s) - Len(pat) + 1)

\* greatest position <= i where pat occurs in s, 0 when there is none
LastIndexOfUpTo(s, pat, i) == LastPos("at", s, pat, 1, i)

\* the characters of a string, as a set
Chars(str) == {SubSeq(str, k, k) : k \in 1..Len(str)}

Base64Chars == "ABCDEFGHIJKLMNOPQRSTUVWXYZabcdefghijklmnopqrstuvwxyz0123456789+/"
\* [a-zA-Z]
Letters == Chars("abcdefghijklmnopqrstuvwxyzABCDEFGHIJKLMNOPQRSTUVWXYZ")
\* [a-zA-Z0-9+/]
Base64Class == Chars(Base64Chars)

\* the position after the longest run of \s starting at i
SkipWs(s, i) == RunUntil("notws", s, "", i)

\* the position after the longest run of [^\s] starting at i
SkipNonWs(s, i) == RunUntil("ws", s, "", i)

\* String.prototype.replace(pattern: string, replacement): the FIRST
\* occurrence of pattern is replaced
ReplaceFirst(s, pat, rep) ==
    Bind(IndexOfFrom(s, pat, 1),
         LAMBDA i : IF i = 0 THEN s
                    ELSE SubSeq(s, 1, i - 1) \o rep \o From(s, i + Len(pat)))

(***************************************************************************)
(* The directive scanner: baseRegex, regex1, regex2                        *)
(***************************************************************************)
Marker == "sourceMappingURL"

NoMatch == [found |-> FALSE, index |-> 0, m0 |-> "", m1 |-> "", marker |-> 0]

\* (?![\S\s]*sourceMappingURL) at position e
NoMarkerFrom(s, e) == IndexOfFrom(s, Marker, e) = 0

\* regex1's tail \s*\*/ at position e: the position after it, 0 on failure
BlockTail(s, e) ==
    Bind(SkipWs(s, e), LAMBDA t : IF At(s, "*/", t) THEN t + 2 ELSE 0)

\* regex2's tail (?:$|\n|\r\n?) at position e ($ without the m flag is the
\* end of the input): the position after it, 0 on failure
LineTail(s, e) ==
    IF e = Len(s) + 1 THEN e
    ELSE IF Ch(s, e) = "\n" THEN e + 1
    ELSE IF Ch(s, e) = "\r" THEN (IF Ch(s, e + 1) = "\n" THEN e + 2 ELSE e + 1)
    ELSE 0

Tail_(kind, s, e) == IF kind = "block" THEN BlockTail(s, e) ELSE LineTail(s, e)

\* the lookahead and the tail match after a capture of length j starting at c
\* (both look at the same position; the cheaper test is made first)
CaptureEnds(kind, s, c, j) == Tail_(kind, s, c + j) # 0 /\ NoMarkerFrom(s, c + j)

\* ([^\s]*) is greedy: the longest capture starting at c, of a length in
\* 0..maxj, after which the lookahead and the tail match; -1 when none does
CaptureLen(kind, s, c, maxj) ==
    IF \E j \in 0..maxj : CaptureEnds(kind, s, c, j)
    THEN CHOOSE j \in 0..maxj :
            /\ CaptureEnds(kind, s, c, j)
            /\ \A k \in (j + 1)..maxj : ~CaptureEnds(kind, s, c, k)
    ELSE -1

RECURSIVE CaptureAt(_, _, _, _, _)
\* \s*([^\s]*)(?!...)tail from position p, where w characters of \s follow p:
\* \s* is tried with k = w, w-1, ..., 0 characters; with k < w the capture is
\* empty (a \s character follows it).  Result: <<capture start, capture
\* length, end>> or <<>>.
CaptureAt(kind, s, p, w, k) ==
    IF k < 0 THEN <<>>
    ELSE Bind(IF k = w THEN SkipNonWs(s, p + k) - (p + k) ELSE 0, LAMBDA maxj :
         Bind(CaptureLen(kind, s, p + k, maxj), LAMBDA j :
              IF j >= 0 THEN <<p + k, j, Tail_(kind, s, p + k + j)>>
              ELSE CaptureAt(kind, s, p, w, k - 1)))

\* the match of an attempt at i whose marker is at p2 and whose "=" is at p3
MatchFrom(kind, s, i, p2, p3) ==
    Bind(SkipWs(s, p3 + 1) - (p3 + 1), LAMBDA w :
    Bind(CaptureAt(kind, s, p3 + 1, w, w), LAMBDA cap :
         IF cap = <<>> THEN NoMatch
         ELSE [found |-> TRUE, index |-> i,
               m0 |-> SubSeq(s, i, cap[3] - 1),
               m1 |-> SubSeq(s, cap[1], cap[1] + cap[2] - 1),
               marker |-> p2]))

\* one attempt of regex1 / regex2 anchored at position i:
\*   opener \s* [@#] \s* sourceMappingURL \s* = ...
TryAt(kind, s, i) ==
    IF ~At(s, IF kind = "block" THEN "/*" ELSE "//", i) THEN NoMatch
    ELSE Bind(SkipWs(s, i + 2), LAMBDA p1 :
         IF Ch(s, p1) \notin {"@", "#"} THEN NoMatch
         ELSE Bind(SkipWs(s, p1 + 1), LAMBDA p2 :
              IF ~At(s, Marker, p2) THEN NoMatch
              ELSE Bind(SkipWs(s, p2 + Len(Marker)), LAMBDA p3 :
                   IF Ch(s, p3) # "=" THEN NoMatch
                   ELSE MatchFrom(kind, s, i, p2, p3))))

\* RegExp.prototype.exec without the g flag: the leftmost position where an
\* attempt succeeds
Exec(kind, s) ==
    IF \E i \in 1..Len(s) : TryAt(kind, s, i).found
    THEN TryAt(kind, s, CHOOSE i \in 1..Len(s) :
                           /\ TryAt(kind, s, i).found
                           /\ \A k \in 1..(i - 1) : ~TryAt(kind, s, k).found)
    ELSE NoMatch

regex1(s) == Exec("block", s)
regex2(s) == Exec("line", s)

\* inputSource.match(regex1) || inputSource.match(regex2)
Scan(s) == Bind(regex1(s), LAMBDA m : IF m.found THEN m ELSE regex2(s))

(***************************************************************************)
(* JavaScript values, as far as the loader looks at them                   *)
(***************************************************************************)
Undefined == [t |-> "undefined"]
Null == [t |-> "null"]
Str(s) == [t |-> "string", v |-> s]
Arr(seq) == [t |-> "array", v |-> seq]
\* a parsed source map; the fields the loader never touches (version, file,
\* mappings, names) are carried through unchanged and left out
Obj(sourceRoot, sources, sourcesContent) ==
    [t |-> "object", sourceRoot |-> sourceRoot, sources |-> sources,
     sourcesContent |-> sourcesContent]

\* ToBoolean
Truthy(val) ==
    /\ val.t \notin {"undefined", "null"}
    /\ ~(val.t = "string" /\ val.v = "")

Err(kind, message) == [kind |-> kind, message |-> message]
NoErr == Err("", "")

(***************************************************************************)
(* The environment: Node's path, url, Buffer and JSON                      *)
(***************************************************************************)
RECURSIVE Split(_, _, _)
\* s.split("/") from position i, cur being the segment read so far
Split(s, i, cur) ==
    IF i > Len(s) THEN <<cur>>
    ELSE IF Ch(s, i) = "/" THEN <<cur>> \o Split(s, i + 1, "")
    ELSE Split(s, i + 1, cur \o Ch(s, i))

RECURSIVE NormalizeSegs(_, _, _)
\* path.posix's normalizeString for an absolute path: "" and "." are
\* dropped, ".." removes the segment before it (none above the root)
NormalizeSegs(segs, i, acc) ==
    IF i > Len(segs) THEN acc
    ELSE IF segs[i] \in {"", "."} THEN NormalizeSegs(segs, i + 1, acc)
    ELSE IF segs[i] = ".."
         THEN NormalizeSegs(segs, i + 1,
                            IF acc = <<>> THEN acc
                            ELSE SubSeq(acc, 1, Len(acc) - 1))
    ELSE NormalizeSegs(segs, i + 1, Append(acc, segs[i]))

RECURSIVE JoinFrom(_, _)
JoinFrom(segs, i) ==
    IF i > Len(segs) THEN "" ELSE "/" \o segs[i] \o JoinFrom(segs, i + 1)

NormalizeAbsolute(p) ==
    Bind(Split(p, 1, ""), LAMBDA raw :
    Bind(NormalizeSegs(raw, 1, <<>>), LAMBDA segs :
         IF segs = <<>> THEN "/" ELSE JoinFrom(segs, 1)))

\* path.resolve(context, filepath) on a POSIX host, context absolute
PathResolve(context, filepath) ==
    IF filepath = "" THEN NormalizeAbsolute(context)
    ELSE IF StartsWith(filepath, "/") THEN NormalizeAbsolute(filepath)
    ELSE NormalizeAbsolute(context \o "/" \o filepath)

\* path.dirname of a normalized absolute path
PathDirname(p) ==
    Bind(LastIndexOfUpTo(p, "/", Len(p)),
         LAMBDA k : IF k <= 1 THEN "/" ELSE SubSeq(p, 1, k - 1))

\* url.fileURLToPath on a POSIX host: a URL with a host is refused
\* (percent-escapes are not modelled: no reference of the model has one)
FileURLToPath(url) ==
    Bind(From(url, Len("file:") + 1), LAMBDA rest :
         IF StartsWith(rest, "//")
         THEN IF At(rest, "/", 3) THEN [ok |-> TRUE, path |-> From(rest, 3)]
              ELSE IF Len(rest) = 2 THEN [ok |-> TRUE, path |-> "/"]
              ELSE [ok |-> FALSE, path |-> ""]
         ELSE IF StartsWith(rest, "/") THEN [ok |-> TRUE, path |-> rest]
         ELSE [ok |-> TRUE, path |-> "/" \o rest])

Ascii ==
    " !\"#$%&'()*+,-./0123456789:;<=>?@ABCDEFGHIJKLMNOPQRSTUVWXYZ[\\]^_?abcdefghijklmnopqrstuvwxyz{|}~"

\* one decoded byte as a character of the string (bytes outside printable
\* ASCII and line feed, and the grave accent, which a TLA+ string cannot
\* hold, decode to the stand-in "?" that no JSON document of the model holds)
ByteChar(b) ==
    IF b = 10 THEN "\n"
    ELSE IF b >= 32 /\ b <= 126 THEN Ch(Ascii, b - 31)
    ELSE "?"

\* the 6 bits of the base64 character of data at position i (0 beyond it)
B64Val(data, i) ==
    IF i > Len(data) THEN 0 ELSE IndexOfFrom(Base64Chars, Ch(data, i), 1) - 1

\* the three bytes of four 6-bit values
Bytes(v1, v2, v3, v4) ==
    <<ByteChar(v1 * 4 + v2 \div 16),
      ByteChar((v2 % 16) * 16 + v3 \div 4),
      ByteChar((v3 % 4) * 64 + v4)>>

RECURSIVE DecodeFrom(_, _)
\* Buffer.from(data, "base64").toString() from position i: 4 characters make
\* 3 bytes, a rest of 3 makes 2, a rest of 2 makes 1, a rest of 1 none
DecodeFrom(data, i) ==
    Bind(Bytes(B64Val(data, i), B64Val(data, i + 1), B64Val(data, i + 2),
               B64Val(data, i + 3)), LAMBDA b :
         IF Len(data) - i + 1 <= 1 THEN ""
         ELSE IF Len(data) - i + 1 = 2 THEN b[1]
         ELSE IF Len(data) - i + 1 = 3 THEN b[1] \o b[2]
         ELSE b[1] \o b[2] \o b[3] \o DecodeFrom(data, i + 4))

\* the payload without its trailing "=" (at most two follow the characters)
StripPadding(s) ==
    IF At(s, "==", Len(s) - 1) THEN SubSeq(s, 1, Len(s) - 2)
    ELSE IF At(s, "=", Len(s)) THEN SubSeq(s, 1, Len(s) - 1)
    ELSE s

Base64Decode(payload) ==
    Bind(StripPadding(payload), LAMBDA data : DecodeFrom(data, 1))

\* The JSON documents of the model, as texts
J1 == "{\"sources\":[\"a.js\",\"b.js\"]}"
J2 == "{\"sourceRoot\":\"r\",\"sources\":[\"a.js\",\"b.js\"]}"
J3 == "{\"sourceRoot\":\"\",\"sources\":[\"a.js\"],\"sourcesContent\":[\"A\"]}"
J4 == "{\"sources\":[\"a.js\",\"http://h/b.js\",\"http://h/c.js\"],\"sourcesContent\":[null,\"B\"]}"
J5 == "{}"
J6 == "null"
J7 == "{\"sources\":[\"a.js\",\"c:/b.js\"],\"sourcesContent\":[\"A\"]}"
NotJson == "{\"sources\":["

\* JSON.parse, on the documents above; any other text is a SyntaxError
JsonTable ==
    {<<J1, Obj(Undefined, Arr(<<"a.js", "b.js">>), Undefined)>>,
     <<J2, Obj(Str("r"), Arr(<<"a.js", "b.js">>), Undefined)>>,
     <<J3, Obj(Str(""), Arr(<<"a.js">>), Arr(<<Str("A")>>))>>,
     <<J4, Obj(Undefined, Arr(<<"a.js", "http://h/b.js", "http://h/c.js">>),
               Arr(<<Null, Str("B")>>))>>,
     <<J5, Obj(Undefined, Undefined, Undefined)>>,
     <<J6, Null>>,
     <<J7, Obj(Undefined, Arr(<<"a.js", "c:/b.js">>), Arr(<<Str("A")>>))>>}

JsonParse(text) ==
    IF \E d \in JsonTable : d[1] = text
    THEN [ok |-> TRUE, value |-> (CHOOSE d \in JsonTable : d[1] = text)[2]]
    ELSE [ok |-> FALSE, value |-> Undefined]

(***************************************************************************)
(* index.ts: regexDataUrl, regexUrl, resolveAbsolutePath                   *)
(***************************************************************************)
FILE_SCHEME == "file:"

\* the position after the longest run, starting at i, of characters that are
\* not in stop
RunEnd(s, i, stop) == RunUntil("in", s, stop, i)

\* the position after the longest run, starting at i, of characters of class
ClassEnd(s, i, class) == RunUntil("notin", s, class, i)

\* ([a-zA-Z0-9+/]+={0,2}) at position ps (0: what precedes it did not match)
Payload(url, ps) ==
    Bind(ClassEnd(url, ps, Base64Class), LAMBDA pe :
         IF ps = 0 \/ pe = ps THEN [found |-> FALSE, m1 |-> ""]
         ELSE [found |-> TRUE,
               m1 |-> SubSeq(url, ps,
                             pe - 1 + (IF At(url, "==", pe) THEN 2
                                       ELSE IF At(url, "=", pe) THEN 1 ELSE 0))])

\* (?:;charset=[^;\n]+)?;base64, at position q: the position after it, 0 on
\* failure
Base64Mark(url, q) ==
    Bind(RunEnd(url, q + 9, {";", "\n"}), LAMBDA q2 :
         IF At(url, ";charset=", q) /\ q2 > q + 9 /\ At(url, ";base64,", q2)
         THEN q2 + 8
         ELSE IF At(url, ";base64,", q) THEN q + 8
         ELSE 0)

\* one attempt of regexDataUrl anchored at i:
\*   data:[^;\n]+(?:;charset=[^;\n]+)?;base64,([a-zA-Z0-9+/]+={0,2})
\* [^;\n]+ can only end at the next ";" for what follows it to match
DataUrlAt(url, i) ==
    IF ~At(url, "data:", i) THEN [found |-> FALSE, m1 |-> ""]
    ELSE Bind(RunEnd(url, i + 5, {";", "\n"}), LAMBDA q :
         IF q = i + 5 THEN [found |-> FALSE, m1 |-> ""]
         ELSE Bind(Base64Mark(url, q), LAMBDA ps : Payload(url, ps)))

\* regexDataUrl.exec(url): the leftmost position where an attempt succeeds
regexDataUrl(url) ==
    IF \E i \in 1..Len(url) : DataUrlAt(url, i).found
    THEN DataUrlAt(url, CHOOSE i \in 1..Len(url) :
                           /\ DataUrlAt(url, i).found
                           /\ \A k \in 1..(i - 1) : ~DataUrlAt(url, k).found)
    ELSE [found |-> FALSE, m1 |-> ""]

\* /^[a-zA-Z]{1,}:/ in the place of regexUrl: one letter is enough
regexUrlOneLetter(filepath) ==
    Bind(ClassEnd(filepath, 1, Letters),
         LAMBDA n : n - 1 >= 1 /\ Ch(filepath, n) = ":")

\* regexUrl.test(filepath): /^[a-zA-Z]{2,}:/
regexUrl(filepath) ==
    Bind(ClassEnd(filepath, 1, Letters),
         LAMBDA n : n - 1 >= 2 /\ Ch(filepath, n) = ":")

Resolved(ok, path, error) == [ok |-> ok, path |-> path, error |-> error]

\* resolveAbsolutePath(context, url): [ok, path, error]
resolveAbsolutePath(context, url) ==
    IF regexUrl(url) /\ ~StartsWith(url, FILE_SCHEME)
    THEN Resolved(FALSE, "", Err("UrlScheme", "URL scheme not supported: " \o url))
    ELSE IF StartsWith(url, FILE_SCHEME)
    THEN Bind(FileURLToPath(url), LAMBDA filepath :
              IF filepath.ok
              THEN Resolved(TRUE, PathResolve(context, filepath.path), NoErr)
              ELSE Resolved(FALSE, "",
                            Err("TypeError", "File URL host must be \"localhost\" or empty")))
    ELSE Resolved(TRUE, PathResolve(context, url), NoErr)

(***************************************************************************)
(* index.ts: readSourceMap                                                 *)
(***************************************************************************)
Settled(st, sourceMap, sourcesContext, path, error) ==
    [st |-> st, sourceMap |-> sourceMap, sourcesContext |-> sourcesContext,
     path |-> path, error |-> error]

\* base64SourceMap.substr(0, 50)
Shortened(base64SourceMap) ==
    SubSeq(base64SourceMap, 1, IF Len(base64SourceMap) < 50 THEN Len(base64SourceMap) ELSE 50)

\* the inline branch of readSourceMap (lines 56-65)
readInline(context, base64SourceMap) ==
    Bind(JsonParse(Base64Decode(base64SourceMap)), LAMBDA parsed :
         IF parsed.ok
         THEN Settled("fulfilled", parsed.value, context, "", NoErr)
         ELSE Settled("rejected", Undefined, "", "",
                      Err("InlineParse",
                          "Cannot parse inline SourceMap '"
                              \o Shortened(base64SourceMap) \o "': SyntaxError")))

\* readSourceMap up to its await: the promise is fulfilled (inline map),
\* rejected, or waits for fs.readFile of path
readSourceMapStart(context, url) ==
    Bind(regexDataUrl(url), LAMBDA dataUrlMatch :
         IF dataUrlMatch.found THEN readInline(context, dataUrlMatch.m1)
         ELSE Bind(resolveAbsolutePath(context, url), LAMBDA resolved :
                   IF resolved.ok
                   THEN Settled("reading", Undefined, "", resolved.path, NoErr)
                   ELSE Settled("rejected", Undefined, "", "", resolved.error)))

\* what fs.readFile(path, "utf-8") rejects with
ReadError(path) ==
    Err("ReadError", "ENOENT: no such file or directory, open '" \o path \o "'")

\* addDependency moved before the await of line 68: the path is registered
\* whether or not the read succeeds
MapDependenciesAlways(absolutePath, read) == <<absolutePath>>

\* line 69 left out: the map file is never registered
MapDependenciesNever(absolutePath, read) == <<>>

\* this.addDependency(absolutePath) of readSourceMap: after the read, before
\* the parse
MapDependencies(absolutePath, read) ==
    IF read.ok THEN <<absolutePath>> ELSE <<>>

\* readSourceMap after its await; read = [ok, content] is what readFile gave
readSourceMapResume(url, absolutePath, read) ==
    IF ~read.ok
    THEN Settled("rejected", Undefined, "", "", ReadError(absolutePath))
    ELSE Bind(JsonParse(read.content), LAMBDA parsed :
              IF parsed.ok
              THEN Settled("fulfilled", parsed.value, PathDirname(absolutePath), "", NoErr)
              ELSE Settled("rejected", Undefined, "", "",
                           Err("MapParse",
                               "Cannot parse SourceMap from " \o url \o ": SyntaxError")))

(***************************************************************************)
(* index.ts: loadSourceMap                                                 *)
(***************************************************************************)
\* line 91 without the separator
SourcePrefixBare(sourceMap) ==
    IF Truthy(sourceMap.sourceRoot) THEN sourceMap.sourceRoot.v ELSE ""

\* const sourcePrefix = sourceMap.sourceRoot ? sourceMap.sourceRoot + "/" : ""
SourcePrefix(sourceMap) ==
    IF Truthy(sourceMap.sourceRoot) THEN sourceMap.sourceRoot.v \o "/" ELSE ""

\* sourceMap.sources.map(s => sourcePrefix + s)
PrefixedSources(sourceMap) ==
    [i \in 1..Len(sourceMap.sources.v) |-> SourcePrefix(sourceMap) \o sourceMap.sources.v[i]]

\* delete sourceMap.sourceRoot
DeleteSourceRoot(sourceMap) == [sourceMap EXCEPT !.sourceRoot = Undefined]

\* sourcesContent[sourceIndex], undefined beyond the array
ContentAt(sourcesContent, sourceIndex) ==
    IF sourceIndex <= Len(sourcesContent) THEN sourcesContent[sourceIndex]
    ELSE Undefined

Warning(kind, message, by) == [kind |-> kind, message |-> message, by |-> by]

Task(st, absolutePath, source, content, warns) ==
    [st |-> st, absolutePath |-> absolutePath,
     result |-> [source |-> source, content |-> content], warns |-> warns]

\* the content returned for a source whose path does not resolve (lines
\* 108-111)
UnresolvedContent(held) == IF held # Null THEN held ELSE Null

\* lines 98-125 without the test of lines 114-122: a source whose path
\* resolves is read whether or not the map holds its content
SourceTaskStartAlwaysReads(sourcesContext, source, sourcesContent, sourceIndex) ==
    Bind(resolveAbsolutePath(sourcesContext, source), LAMBDA resolved :
    Bind(ContentAt(sourcesContent, sourceIndex), LAMBDA held :
         IF ~resolved.ok
         THEN Task("done", "", source, UnresolvedContent(held),
                   <<Warning("CannotFindSource",
                             "Cannot find source file '" \o source \o "': Error: "
                                 \o resolved.error.message,
                             sourceIndex)>>)
         ELSE Task("reading", resolved.path, resolved.path, Undefined, <<>>)))

\* one source's async function up to its await (lines 98-125): done (the
\* path does not resolve, or the content is embedded) or reading
SourceTaskStart(sourcesContext, source, sourcesContent, sourceIndex) ==
    Bind(resolveAbsolutePath(sourcesContext, source), LAMBDA resolved :
    Bind(ContentAt(sourcesContent, sourceIndex), LAMBDA held :
         IF ~resolved.ok
         THEN Task("done", "", source, UnresolvedContent(held),
                   <<Warning("CannotFindSource",
                             "Cannot find source file '" \o source \o "': Error: "
                                 \o resolved.error.message,
                             sourceIndex)>>)
         ELSE IF held # Null /\ held # Undefined
         THEN Task("done", resolved.path, resolved.path, held, <<>>)
         ELSE Task("reading", resolved.path, resolved.path, Undefined, <<>>)))

\* this.addDependency(absolutePath) of a source's function: after the read
SourceDependencies(absolutePath, read) ==
    IF read.ok THEN <<absolutePath>> ELSE <<>>

\* lines 125-139 with the catch of lines 126-134 swallowing the failure: no
\* warning, an empty content
SourceTaskResumeLenient(task, sourceIndex, read) ==
    Task("done", task.absolutePath, task.absolutePath,
         Str(IF read.ok THEN read.content ELSE ""), <<>>)

\* one source's async function after its await (lines 125-139)
SourceTaskResume(task, sourceIndex, read) ==
    IF ~read.ok
    THEN Task("done", task.absolutePath, task.absolutePath, Null,
              <<Warning("CannotOpenSource",
                        "Cannot open source file '" \o task.absolutePath \o "': Error: "
                            \o ReadError(task.absolutePath).message,
                        sourceIndex)>>)
    ELSE Task("done", task.absolutePath, task.absolutePath, Str(read.content), <<>>)

\* the results taken in the order the promises settled in
ResultsAsSettled(tasks, completed) ==
    [k \in 1..Len(tasks) |-> tasks[completed[k]].result]

\* await Promise.all(sourcesPromises): the results in index order, whatever
\* order the promises settled in
Results(tasks, completed) == [i \in 1..Len(tasks) |-> tasks[i].result]

\* lines 143-147 preceded by a test that gives up the whole map when the
\* content of a source is null
MergeResultsOrNothing(keepRelativeSources, sourceMap, results) ==
    IF \E i \in 1..Len(results) : results[i].content = Null
    THEN Null
    ELSE [sourceMap EXCEPT
            !.sources = IF ~keepRelativeSources
                        THEN Arr([i \in 1..Len(results) |-> results[i].source])
                        ELSE @,
            !.sourcesContent = Arr([i \in 1..Len(results) |-> results[i].content])]

\* lines 143-147
MergeResults(keepRelativeSources, sourceMap, results) ==
    [sourceMap EXCEPT
       !.sources = IF ~keepRelativeSources
                   THEN Arr([i \in 1..Len(results) |-> results[i].source])
                   ELSE @,
       !.sourcesContent = Arr([i \in 1..Len(results) |-> results[i].content])]

(***************************************************************************)
(* One invocation of the loader                                            *)
(***************************************************************************)
VARIABLES
    rawInputSource,     \* the loader's first argument
    rawInputSourceMap,  \* the loader's second argument
    pc,                 \* where the invocation is
    keepRelativeSources,\* options.keepRelativeSources
    match,              \* the closure's match (regex1 or regex2)
    isAsync,            \* this.async() was called
    mapRead,            \* the path readSourceMap is reading
    loaded,             \* what readSourceMap settled with
    sourceMap,          \* loadSourceMap's sourceMap, sourceRoot deleted
    sources,            \* loadSourceMap's sources (prefixed)
    sourcesContent,     \* loadSourceMap's sourcesContent
    tasks,              \* sourcesPromises, one per source
    completed,          \* the source indices in the order their promises settled
    warns,              \* the emitWarning calls
    deps,               \* the addDependency calls
    reads,              \* the fs.readFile calls, [path, by]
    okReads,            \* the fs.readFile calls that succeeded, [path, by]
    calls               \* the callback invocations

vars == <<rawInputSource, rawInputSourceMap, pc, keepRelativeSources, match,
          isAsync, mapRead, loaded, sourceMap, sources, sourcesContent, tasks,
          completed, warns, deps, reads, okReads, calls>>

inputVars == <<rawInputSource, rawInputSourceMap>>
mapVars == <<sourceMap, sources, sourcesContent, tasks, completed>>

\* this.context: the directory of the asset
ThisContext == "/p"

\* the largest number of pieces of an input text
MaxChunks == 2

InlineJ1 == "data:application/json;charset=utf-8;base64,eyJzb3VyY2VzIjpbImEuanMiLCJiLmpzIl19"
InlineJ2 == "data:application/json;base64,eyJzb3VyY2VSb290IjoiciIsInNvdXJjZXMiOlsiYS5qcyIsImIuanMiXX0="
InlineBad == "data:application/source-map;base64,invalid/base64="
InlineNotBase64 == "data:application/json;base64,!bad"

\* the pieces input texts are made of
Chunks ==
    {"x;\n",
     "/*# sourceMappingURL=m.map */\n",
     "//# sourceMappingURL=d/m.map\n",
     "/*# sourceMappingURL=" \o InlineJ1 \o "*/",
     "//# sourceMappingURL=" \o InlineJ2 \o "\n",
     "//@ sourceMappingURL=" \o InlineBad \o "\n",
     "//# sourceMappingURL=" \o InlineNotBase64 \o "\n",
     "//# sourceMappingURL=http://h/m.map\n",
     "//# sourceMappingURL=file:///q/m.map\n",
     "//# sourceMappingURL=sourceMappingURL.map\n",
     "/*# sourceMappingURL=m.map"}

RECURSIVE Concat(_, _)
Concat(seq, i) == IF i > Len(seq) THEN "" ELSE seq[i] \o Concat(seq, i + 1)

Texts == {Concat(seq, 1) : seq \in UNION {[1..n -> Chunks] : n \in 0..MaxChunks}}

\* a source map handed over by an earlier loader
ExistingMap == Obj(Str("e"), Arr(<<"z.js">>), Arr(<<Str("Z")>>))

\* what a map file may hold
MapFileTexts == {J1, J2, J3, J4, J5, J6, J7, NotJson}

\* what a source file holds
FileText(path) == "content of " \o path

NoSettled == Settled("", Undefined, "", "", NoErr)

Init ==
    /\ rawInputSource \in Texts
    /\ rawInputSourceMap \in {Undefined, ExistingMap}
    /\ pc = "start"
    /\ keepRelativeSources = FALSE
    /\ match = NoMatch
    /\ isAsync = FALSE
    /\ mapRead = ""
    /\ loaded = NoSettled
    /\ sourceMap = Undefined
    /\ sources = <<>>
    /\ sourcesContent = <<>>
    /\ tasks = <<>>
    /\ completed = <<>>
    /\ warns = <<>>
    /\ deps = <<>>
    /\ reads = <<>>
    /\ okReads = <<>>
    /\ calls = <<>>

Call(source, map) == [err |-> Null, source |-> source, map |-> map]

\* the chain of lines 174-186 without its .catch: a rejection is handled by
\* nothing and the invocation is over
AfterSettleUncaught(settled) ==
    CASE settled.st = "fulfilled" -> "parsed"
      [] settled.st = "rejected" -> "done"
      [] settled.st = "reading" -> "readMap"

\* where the invocation goes once readSourceMap's promise has settled or waits
AfterSettle(settled) ==
    CASE settled.st = "fulfilled" -> "parsed"
      [] settled.st = "rejected" -> "failed"
      [] settled.st = "reading" -> "readMap"

\* line 155 without its second test: an existing map does not stop the loader
NoOpOnEmptyOnly(source, map) == source = ""

\* line 155: if (!rawInputSource || rawInputSourceMap)
NoOp(source, map) == source = "" \/ Truthy(map)

\* line 168 with the test dropped: the loader goes on whatever match is
HasMatchAlways(found) == TRUE

\* line 168: if (!match) return, else go on
HasMatch(found) == found.found

\* lines 150-187, the synchronous part: the two early returns, or the start of
\* loadSourceMap (readSourceMap runs up to its await)
Loader ==
    /\ pc = "start"
    /\ IF NoOp(rawInputSource, rawInputSourceMap)
       THEN /\ calls' = Append(calls, Call(rawInputSource, rawInputSourceMap))
            /\ pc' = "done"
            /\ UNCHANGED <<keepRelativeSources, match, isAsync, mapRead, loaded, reads>>
       ELSE \E keep \in BOOLEAN : \E found \in {Scan(rawInputSource)} :
            /\ keepRelativeSources' = keep
            /\ match' = found
            /\ IF ~HasMatch(found)
               THEN /\ calls' = Append(calls, Call(rawInputSource, Undefined))
                    /\ pc' = "done"
                    /\ UNCHANGED <<isAsync, mapRead, loaded, reads>>
               ELSE \E settled \in {readSourceMapStart(ThisContext, found.m1)} :
                    /\ isAsync' = TRUE
                    /\ pc' = AfterSettle(settled)
                    /\ loaded' = settled
                    /\ mapRead' = settled.path
                    /\ reads' = IF settled.st = "reading"
                                THEN Append(reads, [path |-> settled.path, by |-> 0])
                                ELSE reads
                    /\ UNCHANGED calls
    /\ UNCHANGED <<inputVars, mapVars, warns, deps, okReads>>

\* fs.readFile of the map file completes; readSourceMap goes on (lines 68-78)
MapReadDone ==
    /\ pc = "readMap"
    /\ \E read \in {[ok |-> FALSE, content |-> ""]}
                   \cup {[ok |-> TRUE, content |-> t] : t \in MapFileTexts} :
         \E settled \in {readSourceMapResume(match.m1, mapRead, read)} :
             /\ loaded' = settled
             /\ pc' = AfterSettle(settled)
             /\ deps' = deps \o MapDependencies(mapRead, read)
             /\ okReads' = IF read.ok
                           THEN Append(okReads, [path |-> mapRead, by |-> 0])
                           ELSE okReads
    /\ UNCHANGED <<inputVars, keepRelativeSources, match, isAsync, mapRead,
                   mapVars, warns, reads, calls>>

RECURSIVE TaskWarns(_, _)
\* the warnings of the tasks, in index order
TaskWarns(ts, i) == IF i > Len(ts) THEN <<>> ELSE ts[i].warns \o TaskWarns(ts, i + 1)

RECURSIVE TaskReads(_, _)
\* the reads the tasks start, in index order
TaskReads(ts, i) ==
    IF i > Len(ts) THEN <<>>
    ELSE (IF ts[i].st = "reading"
          THEN <<[path |-> ts[i].absolutePath, by |-> i]>> ELSE <<>>)
         \o TaskReads(ts, i + 1)

RECURSIVE TasksDone(_, _)
\* the indices of the tasks that are done, in index order
TasksDone(ts, i) ==
    IF i > Len(ts) THEN <<>>
    ELSE (IF ts[i].st = "done" THEN <<i>> ELSE <<>>) \o TasksDone(ts, i + 1)

\* sourceMap.sourcesContent || []
OrEmpty(array) == IF Truthy(array) THEN array.v ELSE <<>>

\* sources.map(async (source, sourceIndex) => ...): every function runs up to
\* its await, in index order
StartTasks(sourcesContext, prefixed, content) ==
    [i \in 1..Len(prefixed) |-> SourceTaskStart(sourcesContext, prefixed[i], content, i)]

\* loadSourceMap after readSourceMap (lines 91-141): every source's function
\* runs up to its await.  A map without sources (or a null) throws a TypeError.
FanOut ==
    /\ pc = "parsed"
    /\ IF loaded.sourceMap.t # "object" \/ loaded.sourceMap.sources.t # "array"
       THEN /\ loaded' = [loaded EXCEPT !.st = "rejected",
                             !.error = Err("TypeError", "Cannot read property of undefined")]
            /\ pc' = "failed"
            /\ UNCHANGED <<mapVars, warns, reads>>
       ELSE \E content \in {OrEmpty(loaded.sourceMap.sourcesContent)} :
            \E prefixed \in {PrefixedSources(loaded.sourceMap)} :
            \E started \in {StartTasks(loaded.sourcesContext, prefixed, content)} :
                /\ sourceMap' = DeleteSourceRoot(loaded.sourceMap)
                /\ sources' = prefixed
                /\ sourcesContent' = content
                /\ tasks' = started
                /\ completed' = TasksDone(started, 1)
                /\ warns' = warns \o TaskWarns(started, 1)
                /\ reads' = reads \o TaskReads(started, 1)
                /\ pc' = "sources"
                /\ UNCHANGED loaded
    /\ UNCHANGED <<inputVars, keepRelativeSources, match, isAsync, mapRead,
                   deps, okReads, calls>>

\* fs.readFile of source i completes; its function goes on (lines 125-139)
SourceReadDone(i) ==
    /\ tasks[i].st = "reading"
    /\ \E read \in {[ok |-> FALSE, content |-> ""],
                    [ok |-> TRUE, content |-> FileText(tasks[i].absolutePath)]} :
         \E task \in {SourceTaskResume(tasks[i], i, read)} :
             /\ tasks' = [tasks EXCEPT ![i] = task]
             /\ warns' = warns \o task.warns
             /\ deps' = deps \o SourceDependencies(tasks[i].absolutePath, read)
             /\ okReads' = IF read.ok
                           THEN Append(okReads, [path |-> tasks[i].absolutePath, by |-> i])
                           ELSE okReads
    /\ completed' = Append(completed, i)
    /\ UNCHANGED <<inputVars, pc, keepRelativeSources, match, isAsync, mapRead,
                   loaded, sourceMap, sources, sourcesContent, reads, calls>>

\* lines 180-186 without the else branch: the directive is removed whether or
\* not there is a map
ThenStripped(inputSource, found, map) ==
    Call(ReplaceFirst(inputSource, found.m0, ""), IF Truthy(map) THEN map ELSE Undefined)

\* the .then of the loader (lines 180-186)
Then(inputSource, found, map) ==
    IF Truthy(map) THEN Call(ReplaceFirst(inputSource, found.m0, ""), map)
    ELSE Call(inputSource, Undefined)

\* Promise.race in the place of Promise.all: one settled promise is enough
\* (none, for a map without sources)
AnySettled(ts) == ts = <<>> \/ \E i \in 1..Len(ts) : ts[i].st = "done"

\* await Promise.all(sourcesPromises) goes on once every promise has settled
AllSettled(ts) == \A i \in 1..Len(ts) : ts[i].st = "done"

\* every source's promise has settled: lines 142-147, then the loader's .then
Gather ==
    /\ pc = "sources"
    /\ AllSettled(tasks)
    /\ \E merged \in {MergeResults(keepRelativeSources, sourceMap, Results(tasks, completed))} :
         /\ sourceMap' = merged
         /\ calls' = Append(calls, Then(rawInputSource, match, merged))
    /\ pc' = "done"
    /\ UNCHANGED <<inputVars, keepRelativeSources, match, isAsync, mapRead, loaded,
                   sources, sourcesContent, tasks, completed, warns, deps, reads,
                   okReads>>

\* loadSourceMap's promise was rejected: the loader's .catch, then its .then
\* (lines 176-186)
Catch ==
    /\ pc = "failed"
    /\ warns' = Append(warns, Warning(loaded.error.kind, loaded.error.message, 0))
    /\ calls' = Append(calls, Then(rawInputSource, match, Null))
    /\ pc' = "done"
    /\ UNCHANGED <<inputVars, keepRelativeSources, match, isAsync, mapRead, loaded,
                   mapVars, deps, reads, okReads>>

Next ==
    \/ Loader
    \/ MapReadDone
    \/ FanOut
    \/ \E i \in 1..Len(tasks) : SourceReadDone(i)
    \/ Gather
    \/ Catch

Spec == Init /\ [][Next]_vars

\* every pending file read completes and the event loop runs every
\* continuation that is ready
FairSpec ==
    /\ Spec
    /\ WF_vars(MapReadDone)
    /\ WF_vars(\E i \in 1..Len(tasks) : SourceReadDone(i))
    /\ WF_vars(FanOut)
    /\ WF_vars(Gather)
    /\ WF_vars(Catch)

(***************************************************************************)
(* Properties of one invocation                                            *)
(***************************************************************************)

\* C1: when a directive is found but loading the map itself fails (the inline
\* payload cannot be parsed, the map file cannot be read, the map file is not
\* valid JSON, or the reference has an unsupported scheme), the invocation
\* emits exactly one warning in total, returns the input text unchanged
\* (directive still present) and returns no map.
C1_MapFailurePassesThrough ==
    (/\ pc = "done"
     /\ match.found
     /\ loaded.st = "rejected"
     /\ loaded.error.kind \in {"InlineParse", "ReadError", "MapParse", "UrlScheme"})
    => /\ Len(warns) = 1
       /\ warns[1].message = loaded.error.message
       /\ calls = <<[err |-> Null, source |-> rawInputSource, map |-> Undefined]>>

\* a map file that is not valid JSON: one warning, the text handed back whole
C1_Witness ==
    /\ pc = "done"
    /\ rawInputSource = "x;\n/*# sourceMappingURL=m.map */\n"
    /\ loaded.error.kind = "MapParse"
    /\ Len(warns) = 1
    /\ calls[1].source = rawInputSource
    /\ calls[1].map = Undefined

\* C2: for a non-empty text without an existing map in which no directive is
\* recognised, the result text is the input text, the result map is absent,
\* and there is no warning, no dependency and no file read.
C2_NoDirectivePassesThrough ==
    (/\ pc = "done"
     /\ rawInputSource # ""
     /\ ~Truthy(rawInputSourceMap)
     /\ ~match.found)
    => /\ calls = <<[err |-> Null, source |-> rawInputSource, map |-> Undefined]>>
       /\ ~isAsync
       /\ warns = <<>>
       /\ deps = <<>>
       /\ reads = <<>>

\* a text whose only directive is an unterminated block comment
C2_Witness ==
    /\ pc = "done"
    /\ rawInputSource = "x;\n/*# sourceMappingURL=m.map"
    /\ rawInputSourceMap = Undefined
    /\ ~match.found
    /\ calls = <<[err |-> Null, source |-> rawInputSource, map |-> Undefined]>>

\* C3: if the input text is empty or an existing map is supplied, the loader
\* returns the text and the supplied map unchanged, never scans for a
\* directive, emits no warning, registers no dependency and reads no file.
C3_NoOp ==
    (rawInputSource = "" \/ Truthy(rawInputSourceMap))
    => /\ match = NoMatch
       /\ ~isAsync
       /\ warns = <<>>
       /\ deps = <<>>
       /\ reads = <<>>
       /\ pc \in {"start", "done"}
       /\ pc = "start" => calls = <<>>
       /\ pc = "done"
            => calls = <<[err |-> Null, source |-> rawInputSource,
                          map |-> rawInputSourceMap]>>

\* an existing map supplied with a text that holds a valid directive
C3_Witness ==
    /\ pc = "done"
    /\ rawInputSource = "/*# sourceMappingURL=m.map */\n"
    /\ rawInputSourceMap = ExistingMap
    /\ match = NoMatch
    /\ calls = <<[err |-> Null, source |-> rawInputSource, map |-> ExistingMap]>>

\* C4: when a map is returned, the result text is the input text with exactly
\* the matched directive span removed, at the position of the match, every
\* other character left in place (an earlier occurrence of the same comment
\* included).
C4_MatchedSpanRemoved ==
    (pc = "done" /\ match.found /\ Truthy(calls[1].map))
    => calls[1].source
         = SubSeq(rawInputSource, 1, match.index - 1)
             \o From(rawInputSource, match.index + Len(match.m0))

\* C5: the directive that is matched is the one at the last occurrence of the
\* marker in the whole text; when the last occurrence is not a well-formed
\* directive nothing is matched.
C5_LastMarkerOnly ==
    match.found
    => match.marker = LastIndexOfUpTo(rawInputSource, Marker, Len(rawInputSource))

\* C6: with keepRelativeSources = true and a non-empty sourceRoot R, the
\* returned map's sources[i] is R + "/" + the original sources[i] for every
\* i, and sourcesContent[i] is filled as in the default mode.
C6_KeptSourcesArePrefixed ==
    (/\ pc = "done"
     /\ match.found
     /\ Truthy(calls[1].map)
     /\ keepRelativeSources
     /\ Truthy(loaded.sourceMap.sourceRoot))
    => /\ Len(calls[1].map.sources.v) = Len(loaded.sourceMap.sources.v)
       /\ \A i \in 1..Len(loaded.sourceMap.sources.v) :
             /\ calls[1].map.sources.v[i]
                  = loaded.sourceMap.sourceRoot.v \o "/" \o loaded.sourceMap.sources.v[i]
             /\ calls[1].map.sourcesContent.v[i] = tasks[i].result.content

\* C7: the addDependency calls correspond one to one, in order, with the file
\* reads that succeeded; nothing is registered before its read succeeded, for
\* an inline map, for a source whose content is embedded, or for a read that
\* failed.
C7_DependenciesAreSuccessfulReads ==
    /\ Len(deps) = Len(okReads)
    /\ \A k \in 1..Len(deps) :
          /\ deps[k] = okReads[k].path
          /\ \E j \in 1..Len(reads) : reads[j] = okReads[k]
    /\ \A j \in 1..Len(reads) :
          reads[j].by = 0 => ~regexDataUrl(match.m1).found
    /\ \A i \in 1..Len(tasks) :
          (ContentAt(sourcesContent, i) # Null /\ ContentAt(sourcesContent, i) # Undefined)
          => \A j \in 1..Len(reads) : reads[j].by # i
    /\ Len(reads) - Len(okReads)
         >= Cardinality({k \in 1..Len(warns) : warns[k].kind \in {"ReadError", "CannotOpenSource"}})

\* a map file and one of its two sources are read, the other source's read
\* fails: two dependencies for three reads
C7_Witness ==
    /\ pc = "done"
    /\ Len(reads) = 3
    /\ Len(okReads) = 2
    /\ deps = <<"/p/m.map", "/p/b.js">>

\* C8 as stated: when a map is loaded but the file of source i cannot be
\* read, the loader still returns a map, in which sourcesContent[i] is null
\* and sources[i] is the resolved absolute path; exactly one warning is
\* emitted for that source and no dependency is registered for it.
C8_UnreadableSourceAsStated ==
    pc = "done"
    => \A i \in 1..Len(tasks) :
         (/\ \E j \in 1..Len(reads) : reads[j].by = i
          /\ \A k \in 1..Len(okReads) : okReads[k].by # i)
         => /\ Truthy(calls[1].map)
            /\ calls[1].map.sourcesContent.v[i] = Null
            /\ calls[1].map.sources.v[i]
                 = PathResolve(loaded.sourcesContext, sources[i])
            /\ Cardinality({k \in 1..Len(warns) : warns[k].by = i}) = 1
            /\ \A k \in 1..Len(deps) : deps[k] # tasks[i].absolutePath

\* C8 amended: as stated, but sources[i] is the resolved absolute path when
\* keepRelativeSources is false (with keepRelativeSources = true the loader
\* does not rewrite sources).
C8_UnreadableSource ==
    pc = "done"
    => \A i \in 1..Len(tasks) :
         (/\ \E j \in 1..Len(reads) : reads[j].by = i
          /\ \A k \in 1..Len(okReads) : okReads[k].by # i)
         => /\ Truthy(calls[1].map)
            /\ calls[1].source = ReplaceFirst(rawInputSource, match.m0, "")
            /\ calls[1].map.sourcesContent.v[i] = Null
            /\ ~keepRelativeSources
                 => calls[1].map.sources.v[i]
                      = PathResolve(loaded.sourcesContext, sources[i])
            /\ Cardinality({k \in 1..Len(warns) : warns[k].by = i}) = 1
            /\ \A k \in 1..Len(warns) :
                  warns[k].by = i => warns[k].kind = "CannotOpenSource"
            /\ \A k \in 1..Len(deps) : deps[k] # tasks[i].absolutePath

\* the map file names a.js and b.js, a.js cannot be read and b.js can: the
\* map is returned with a null content for a.js
C8_Witness ==
    /\ pc = "done"
    /\ ~keepRelativeSources
    /\ reads = <<[path |-> "/p/m.map", by |-> 0], [path |-> "/p/a.js", by |-> 1],
                 [path |-> "/p/b.js", by |-> 2]>>
    /\ okReads = <<[path |-> "/p/m.map", by |-> 0], [path |-> "/p/b.js", by |-> 2]>>
    /\ calls[1].map.sources.v = <<"/p/a.js", "/p/b.js">>
    /\ calls[1].map.sourcesContent.v = <<Null, Str("content of /p/b.js")>>
    /\ Len(warns) = 1

\* C9: in every returned map sourcesContent is as long as sources, and entry
\* i of both arrays describes the original source i, whatever order the
\* sources' reads complete in.
C9_ArraysAligned ==
    (pc = "done" /\ match.found /\ Truthy(calls[1].map))
    => /\ Len(calls[1].map.sources.v) = Len(loaded.sourceMap.sources.v)
       /\ Len(calls[1].map.sourcesContent.v) = Len(calls[1].map.sources.v)
       /\ \A i \in 1..Len(loaded.sourceMap.sources.v) :
             \E resolved \in {resolveAbsolutePath(loaded.sourcesContext, sources[i])} :
               /\ calls[1].map.sources.v[i]
                    = IF keepRelativeSources THEN loaded.sourceMap.sources.v[i]
                      ELSE IF resolved.ok THEN resolved.path
                      ELSE sources[i]
               /\ calls[1].map.sourcesContent.v[i]
                    \in {ContentAt(sourcesContent, i), Null, Str(FileText(resolved.path))}

\* the read of the second source completes before the read of the first, and
\* both contents sit at their source's index
C9_Witness ==
    /\ pc = "done"
    /\ completed = <<2, 1>>
    /\ calls[1].map.sources.v = <<"/p/a.js", "/p/b.js">>
    /\ calls[1].map.sourcesContent.v
         = <<Str("content of /p/a.js"), Str("content of /p/b.js")>>

\* C10 as stated: each source of a loaded map is resolved as sourceRoot + "/"
\* + source when sourceRoot is set and non-empty, and as the bare source
\* otherwise, against the directory of the map file (this.context for an
\* inline map); and no map the loader returns carries a sourceRoot.
C10_SourceRootAsStated ==
    /\ (pc = "sources" \/ (pc = "done" /\ match.found /\ Truthy(calls[1].map)))
       => \A i \in 1..Len(loaded.sourceMap.sources.v) :
            \E resolved \in
                {resolveAbsolutePath(
                    IF mapRead = "" THEN ThisContext ELSE PathDirname(mapRead),
                    IF loaded.sourceMap.sourceRoot.t = "string"
                         /\ loaded.sourceMap.sourceRoot.v # ""
                    THEN loaded.sourceMap.sourceRoot.v \o "/"
                             \o loaded.sourceMap.sources.v[i]
                    ELSE loaded.sourceMap.sources.v[i])} :
              resolved.ok => tasks[i].absolutePath = resolved.path
    /\ \A k \in 1..Len(calls) :
          Truthy(calls[k].map) => calls[k].map.sourceRoot = Undefined

\* C10 amended: the sources are resolved as stated, and no map the loader
\* loaded carries a sourceRoot when it is returned; a map supplied with the
\* text is returned as it is, with its sourceRoot.
C10_SourceRoot ==
    /\ (pc = "sources" \/ (pc = "done" /\ match.found /\ Truthy(calls[1].map)))
       => /\ Len(tasks) = Len(loaded.sourceMap.sources.v)
          /\ sourceMap.sourceRoot = Undefined
          /\ \A i \in 1..Len(loaded.sourceMap.sources.v) :
                \E resolved \in
                    {resolveAbsolutePath(
                        IF mapRead = "" THEN ThisContext ELSE PathDirname(mapRead),
                        IF loaded.sourceMap.sourceRoot.t = "string"
                             /\ loaded.sourceMap.sourceRoot.v # ""
                        THEN loaded.sourceMap.sourceRoot.v \o "/"
                                 \o loaded.sourceMap.sources.v[i]
                        ELSE loaded.sourceMap.sources.v[i])} :
                  /\ resolved.ok => tasks[i].absolutePath = resolved.path
                  /\ \A j \in 1..Len(reads) :
                        reads[j].by = i => resolved.ok /\ reads[j].path = resolved.path
    /\ \A k \in 1..Len(calls) :
          (match.found /\ Truthy(calls[k].map)) => calls[k].map.sourceRoot = Undefined
    /\ \A k \in 1..Len(calls) :
          ~match.found => calls[k].map \in {rawInputSourceMap, Undefined}

\* the map file /p/d/m.map has sourceRoot "r": its sources are read from
\* /p/d/r, and the map is returned without sourceRoot
C10_Witness ==
    /\ pc = "done"
    /\ mapRead = "/p/d/m.map"
    /\ Truthy(calls[1].map)
    /\ loaded.sourceMap.sourceRoot = Str("r")
    /\ reads = <<[path |-> "/p/d/m.map", by |-> 0], [path |-> "/p/d/r/a.js", by |-> 1],
                 [path |-> "/p/d/r/b.js", by |-> 2]>>
    /\ calls[1].map.sourceRoot = Undefined

\* C11: when the map file cannot be read, the one warning is a dedicated
\* "Cannot open SourceMap" error that names the map file and carries the I/O
\* cause, not the bare I/O error, and no dependency is registered.
C11_MapReadErrorIsWrapped ==
    (pc = "done" /\ loaded.error.kind = "ReadError")
    => /\ Len(warns) = 1
       /\ StartsWith(warns[1].message, "Cannot open SourceMap")
       /\ IndexOfFrom(warns[1].message, mapRead, 1) # 0
       /\ IndexOfFrom(warns[1].message, "ENOENT", 1) # 0
       /\ warns[1].message # ReadError(mapRead).message
       /\ deps = <<>>

\* C12: when the map file is read but is not valid JSON, the map file is
\* registered as a dependency exactly once, exactly one warning (the map
\* parse error) is emitted, the text is returned unchanged and no map is
\* returned.
C12_UnparsableMapIsADependency ==
    (pc = "done" /\ loaded.error.kind = "MapParse")
    => /\ deps = <<mapRead>>
       /\ okReads = <<[path |-> mapRead, by |-> 0]>>
       /\ Len(warns) = 1
       /\ warns[1].message = "Cannot parse SourceMap from " \o match.m1 \o ": SyntaxError"
       /\ calls = <<[err |-> Null, source |-> rawInputSource, map |-> Undefined]>>

\* the map file /p/d/m.map holds a text that is not JSON
C12_Witness ==
    /\ pc = "done"
    /\ rawInputSource = "x;\n//# sourceMappingURL=d/m.map\n"
    /\ loaded.error.kind = "MapParse"
    /\ deps = <<"/p/d/m.map">>
    /\ Len(warns) = 1
    /\ calls[1].source = rawInputSource

\* C13: for a reference that is an inline base64 data URI whose payload is
\* corrupted, the warning is the inline parse error ("Cannot parse inline
\* SourceMap", with a snippet of at most 50 characters of the payload), never
\* another error; the text is unchanged and no map is returned.
C13_CorruptedInlineIsInlineParseError ==
    (/\ pc = "done"
     /\ match.found
     /\ StartsWith(match.m1, "data:")
     /\ IndexOfFrom(match.m1, ";base64,", 1) # 0
     /\ loaded.st = "rejected")
    => /\ loaded.error.kind = "InlineParse"
       /\ Len(warns) = 1
       /\ StartsWith(warns[1].message, "Cannot parse inline SourceMap '")
       /\ Len(warns[1].message)
            <= Len("Cannot parse inline SourceMap '") + 50 + Len("': SyntaxError")
       /\ calls = <<[err |-> Null, source |-> rawInputSource, map |-> Undefined]>>

\* C14: the loader asks for asynchronous completion (this.async()) if and
\* only if a directive was found: on the two paths without a directive the
\* result is delivered during the call itself, and when a directive matched
\* nothing is delivered during the call (the result comes later, through the
\* callback this.async() returned).
C14_AsyncIffDirective ==
    /\ [](pc # "start" => (isAsync <=> match.found))
    /\ [](~isAsync => (pc \in {"start", "done"} /\ (pc = "done" => Len(calls) = 1)))
    /\ [][pc = "start" => (IF isAsync' THEN calls' = calls ELSE Len(calls') = 1)]_vars
    /\ [][(isAsync /\ calls' # calls) => pc \in {"sources", "failed"}]_vars

\* a directive matched and the result was delivered after the reads
C14_Witness ==
    /\ pc = "done"
    /\ isAsync
    /\ match.found
    /\ Len(reads) = 3
    /\ Len(calls) = 1

\* C15: for every source index i of a loaded map, a read of the source file
\* is attempted if and only if its path resolved and sourcesContent[i] is null
\* or absent (index beyond the array, or no sourcesContent at all); a content
\* that is present and not null is returned as it is, with the resolved
\* absolute path, without any read.
C15_ReadIffContentAbsent ==
    (pc = "sources" \/ (pc = "done" /\ match.found /\ Truthy(calls[1].map)))
    => \A i \in 1..Len(sources) :
         \E resolved \in {resolveAbsolutePath(loaded.sourcesContext, sources[i])} :
         \E held \in {IF loaded.sourceMap.sourcesContent.t = "array"
                         /\ i <= Len(loaded.sourceMap.sourcesContent.v)
                      THEN loaded.sourceMap.sourcesContent.v[i]
                      ELSE Undefined} :
           /\ (\E j \in 1..Len(reads) : reads[j].by = i)
                <=> (resolved.ok /\ held \in {Null, Undefined})
           /\ Cardinality({j \in 1..Len(reads) : reads[j].by = i}) <= 1
           /\ \A j \in 1..Len(reads) : reads[j].by = i => reads[j].path = resolved.path
           /\ (resolved.ok /\ held \notin {Null, Undefined})
                => /\ tasks[i].result = [source |-> resolved.path, content |-> held]
                   /\ pc = "done" => calls[1].map.sourcesContent.v[i] = held

\* the map has the content of its first source and none for its second (the
\* index is beyond the array): only the second source is read
C15_Witness ==
    /\ pc = "done"
    /\ reads = <<[path |-> "/p/m.map", by |-> 0], [path |-> "/p/c:/b.js", by |-> 2]>>
    /\ loaded.sourceMap.sourcesContent = Arr(<<Str("A")>>)
    /\ calls[1].map.sources.v = <<"/p/a.js", "/p/c:/b.js">>
    /\ calls[1].map.sourcesContent.v[1] = Str("A")

\* C16: when the path of source i cannot be resolved, exactly one "Cannot find
\* source file" warning is emitted for it, no read is attempted, the returned
\* sources[i] is the unresolved string, and the returned sourcesContent[i] is
\* the content the map held at i, or null when it held none there (a null,
\* an index beyond the array, or no sourcesContent).
C16_UnresolvedSourceKeepsContentOrNull ==
    (pc = "done" /\ match.found /\ Truthy(calls[1].map))
    => \A i \in 1..Len(sources) :
         ~resolveAbsolutePath(loaded.sourcesContext, sources[i]).ok
         => /\ Cardinality({k \in 1..Len(warns) : warns[k].by = i}) = 1
            /\ \A k \in 1..Len(warns) :
                  warns[k].by = i
                  => StartsWith(warns[k].message,
                                "Cannot find source file '" \o sources[i] \o "'")
            /\ \A j \in 1..Len(reads) : reads[j].by # i
            /\ calls[1].map.sources.v[i] = sources[i]
            /\ calls[1].map.sourcesContent.v[i]
                 = IF loaded.sourceMap.sourcesContent.t = "array"
                       /\ i <= Len(loaded.sourceMap.sourcesContent.v)
                       /\ loaded.sourceMap.sourcesContent.v[i] # Null
                   THEN loaded.sourceMap.sourcesContent.v[i]
                   ELSE Null

\* C17 as stated: once the raw map has been parsed, the invocation ends with
\* a map; the number of warnings is the number of sources that failed to
\* resolve or to be read; and what is returned for an index that did not fail
\* does not depend on the other sources.
C17_SourceFailuresIsolatedAsStated ==
    (pc = "done" /\ match.found /\ loaded.sourceMap # Undefined)
    => /\ Truthy(calls[1].map)
       /\ Len(warns)
            = Cardinality({i \in 1..Len(tasks) :
                             \/ tasks[i].absolutePath = ""
                             \/ \E j \in 1..Len(reads) :
                                  reads[j].by = i /\ \A k \in 1..Len(okReads) : okReads[k] # reads[j]})

\* C17 amended: once the raw map has been parsed into an object that has a
\* sources array, the invocation ends with a map (the text without the
\* directive); the number of warnings is the number of sources that failed to
\* resolve or to be read, one for each; and the path and content returned for
\* an index that did not fail are those of that source alone.  A parsed map
\* that is no such object (null, or an object without sources) ends in one
\* warning and no map.
C17_SourceFailuresIsolated ==
    (pc = "done" /\ match.found /\ loaded.sourceMap # Undefined)
    => IF loaded.sourceMap.t = "object" /\ loaded.sourceMap.sources.t = "array"
       THEN /\ Truthy(calls[1].map)
            /\ calls[1].source = ReplaceFirst(rawInputSource, match.m0, "")
            /\ Len(warns)
                 = Cardinality({i \in 1..Len(tasks) :
                                  \/ tasks[i].absolutePath = ""
                                  \/ \E j \in 1..Len(reads) :
                                       reads[j].by = i
                                       /\ \A k \in 1..Len(okReads) : okReads[k] # reads[j]})
            /\ \A i \in 1..Len(tasks) :
                 Cardinality({k \in 1..Len(warns) : warns[k].by = i}) <= 1
            /\ \A i \in 1..Len(tasks) :
                 (\A k \in 1..Len(warns) : warns[k].by # i)
                 => \E resolved \in {resolveAbsolutePath(loaded.sourcesContext, sources[i])} :
                      /\ resolved.ok
                      /\ ~keepRelativeSources
                           => calls[1].map.sources.v[i] = resolved.path
                      /\ calls[1].map.sourcesContent.v[i]
                           = IF ContentAt(sourcesContent, i) \notin {Null, Undefined}
                             THEN ContentAt(sourcesContent, i)
                             ELSE Str(FileText(resolved.path))
       ELSE /\ Len(warns) = 1
            /\ calls = <<[err |-> Null, source |-> rawInputSource, map |-> Undefined]>>

\* of three sources two do not resolve and the third cannot be read: three
\* warnings, and the map is returned
C17_Witness ==
    /\ pc = "done"
    /\ Len(tasks) = 3
    /\ Len(warns) = 3
    /\ Truthy(calls[1].map)
    /\ calls[1].map.sourcesContent.v[1] = Null
    /\ calls[1].map.sourcesContent.v[2] = Str("B")

\* C18: a reference (a map reference that regexDataUrl does not match, or a
\* listed source) is rejected as an unsupported scheme if and only if it
\* begins with two or more letters followed by ":" and does not begin with
\* "file:"; a rejected reference is never read; a reference that begins with
\* one letter and ":" is not rejected but resolved as a path.
C18_SchemeRejection ==
    /\ (pc # "start" /\ match.found)
       => /\ (loaded.error.message = "URL scheme not supported: " \o match.m1)
               <=> /\ \E n \in 2..Len(match.m1) :
                        /\ Ch(match.m1, n + 1) = ":"
                        /\ \A k \in 1..n : Ch(match.m1, k) \in Letters
                   /\ ~At(match.m1, "file:", 1)
                   /\ ~regexDataUrl(match.m1).found
          /\ (loaded.error.message = "URL scheme not supported: " \o match.m1)
               => \A j \in 1..Len(reads) : reads[j].by # 0
    /\ \A i \in 1..Len(tasks) :
          /\ (\E k \in 1..Len(warns) :
                 /\ warns[k].by = i
                 /\ warns[k].message
                      = "Cannot find source file '" \o sources[i]
                          \o "': Error: URL scheme not supported: " \o sources[i])
               <=> /\ \E n \in 2..Len(sources[i]) :
                        /\ Ch(sources[i], n + 1) = ":"
                        /\ \A k \in 1..n : Ch(sources[i], k) \in Letters
                   /\ ~At(sources[i], "file:", 1)
          /\ (\E k \in 1..Len(warns) : warns[k].by = i /\ warns[k].kind = "CannotFindSource")
               => \A j \in 1..Len(reads) : reads[j].by # i
          /\ (Ch(sources[i], 1) \in Letters /\ Ch(sources[i], 2) = ":")
               => /\ tasks[i].absolutePath
                       = NormalizeAbsolute(loaded.sourcesContext \o "/" \o sources[i])
                  /\ \A k \in 1..Len(warns) :
                        warns[k].by = i => warns[k].kind # "CannotFindSource"

\* a map with a source on a drive prefix, which is read as a path, next to a
\* reference with a scheme, which is rejected before any read
C18_Witness ==
    /\ pc = "done"
    /\ match.m1 = "m.map"
    /\ Len(tasks) = 3
    /\ sources[2] = "http://h/b.js"
    /\ reads = <<[path |-> "/p/m.map", by |-> 0], [path |-> "/p/a.js", by |-> 1]>>
    /\ Cardinality({k \in 1..Len(warns) : warns[k].kind = "CannotFindSource"}) = 2

\* C19: when every pending file read eventually completes, every invocation
\* (a run that has left "start") eventually delivers exactly one result: the callback is invoked once, with
\* a null error, either with the input text and no new map (Passthrough) or
\* with the text without the matched directive and the loaded map (Rewritten);
\* the callback is never invoked twice, and no file is read twice for the same
\* reference (no failure is retried).
C19_ExactlyOneResult ==
    /\ [](Len(calls) <= 1)
    /\ [](\A j, k \in 1..Len(reads) : reads[j].by = reads[k].by => j = k)
    /\ <>[](pc # "start"
            => /\ pc = "done"
               /\ Len(calls) = 1
               /\ calls[1].err = Null
               /\ \/ /\ calls[1].source = rawInputSource
                     /\ calls[1].map = (IF match.found THEN Undefined
                                        ELSE rawInputSourceMap)
                  \/ /\ match.found
                     /\ Truthy(calls[1].map)
                     /\ calls[1].source = ReplaceFirst(rawInputSource, match.m0, ""))

\* a map file that could not be read: one read, one warning, one result
C19_Witness ==
    /\ pc = "done"
    /\ loaded.st = "rejected"
    /\ Len(reads) = 1
    /\ reads[1].by = 0
    /\ Len(warns) = 1
    /\ Len(calls) = 1
    /\ calls[1] = [err |-> Null, source |-> rawInputSource, map |-> Undefined]

\* C20: the result is delivered only after every per-source task has
\* completed: in every interleaving of the source reads, once the callback
\* has been invoked no source read is pending, and no step after it emits a
\* warning, registers a dependency or reads a file.
C20_NothingAfterCallback ==
    /\ [](Len(calls) > 0 => \A i \in 1..Len(tasks) : tasks[i].st # "reading")
    /\ [][Len(calls) > 0 => (warns' = warns /\ deps' = deps /\ reads' = reads)]_vars

\* two source reads that completed in the reverse order, the last of them
\* with a warning, before the result was delivered
C20_Witness ==
    /\ pc = "done"
    /\ Len(calls) = 1
    /\ Len(completed) = 2
    /\ completed[1] > completed[2]
    /\ \E k \in 1..Len(warns) : warns[k].by = completed[2]
    /\ \E j \in 1..Len(reads) : reads[j].by = completed[1]

====
